---- MODULE Spec2Model ----
(***************************************************************************)
(* Model of static/scripts.js, the browser side of the F1 telemetry        *)
(* comparison dashboard: the session and driver choosers, the update       *)
(* button, the telemetry fetch and the render pass plotTelemetry that      *)
(* purges and redraws the four channel charts.                             *)
(*                                                                         *)
(* JavaScript runs every handler to completion, so each handler (and each  *)
(* continuation after an await) is one action.  Strings are TLA+ strings;  *)
(* JSON numbers, null and undefined are tagged tuples.                     *)
(***************************************************************************)
EXTENDS Integers, Sequences, FiniteSets, TLC

VARIABLES
    sessionOptions,    \* option values of sessionSelect, in document order
    sessionValue,      \* sessionSelect.value ("" while there is no option)
    driverOptions,     \* option values of driverSelect, in document order
    selected,          \* indices of the selected options of driverSelect
    sessionsFetch,     \* TRUE while the fetch of populateSessions is outstanding
    driversFetches,    \* session keys whose populateDrivers fetch is outstanding
    telemetryFetches,  \* outstanding telemetry requests of update clicks
    clicks,            \* number of update clicks that issued a fetch
    charts,            \* what each graph div shows
    edits,             \* number of changes the user made to the two choosers
    passes,            \* the session and selection plotTelemetry read in each run
    lastPass,          \* all the inputs of the latest run of plotTelemetry
    resolved           \* the telemetry fetches that have ended, in that order

vars == <<sessionOptions, sessionValue, driverOptions, selected, sessionsFetch,
          driversFetches, telemetryFetches, clicks, charts, edits, passes,
          lastPass, resolved>>

----------------------------------------------------------------------------
(* Bounds                                                                  *)

\* update clicks that issue a telemetry fetch
MaxClicks == 2

\* changes the user makes to the session chooser and the driver selection
MaxEdits == 2

----------------------------------------------------------------------------
(* JavaScript values and helpers                                           *)

Num(n) == <<"number", n>>
Null == <<"null">>
Undefined == <<"undefined">>
NaN == <<"NaN">>

Min(a, b) == IF a < b THEN a ELSE b

\* Array.prototype.slice(0, n)
Slice(s, n) == SubSeq(s, 1, Min(n, Len(s)))

\* Array.prototype.includes
Includes(s, v) == \E k \in 1..Len(s) : s[k] = v

\* Array.prototype.map
Map(s, F(_)) == [k \in 1..Len(s) |-> F(s[k])]

RECURSIVE Join(_, _)
\* Array.prototype.join on an array of strings
Join(s, sep) ==
    IF Len(s) = 0 THEN ""
    ELSE IF Len(s) = 1 THEN s[1]
    ELSE s[1] \o sep \o Join(Tail(s), sep)

Digits == <<"0", "1", "2", "3", "4", "5", "6", "7", "8", "9">>

IsDigit(c) == Includes(Digits, c)

DigitVal(c) == (CHOOSE k \in 1..Len(Digits) : Digits[k] = c) - 1

RECURSIVE ParseDigits(_, _, _)
ParseDigits(s, k, acc) ==
    IF k > Len(s) \/ ~IsDigit(SubSeq(s, k, k)) THEN acc
    ELSE ParseDigits(s, k + 1, acc * 10 + DigitVal(SubSeq(s, k, k)))

\* parseInt(string): the leading decimal digits, NaN when there are none
ParseInt(s) ==
    IF Len(s) = 0 \/ ~IsDigit(SubSeq(s, 1, 1)) THEN NaN
    ELSE Num(ParseDigits(s, 1, 0))

\* String(value) of a number or NaN, as join and template literals apply it
NumberToString(v) == IF v = NaN THEN "NaN" ELSE ToString(v[2])

----------------------------------------------------------------------------
(* Page constants                                                          *)

\* metrics, in the order plotTelemetry walks them (the keys of graphDivs)
metrics == <<"throttle", "brake", "speed", "n_gear">>

Metrics == {metrics[k] : k \in 1..Len(metrics)}

colors == <<"#FF4500", "#1E90FF", "#32CD32", "#9400D3", "#FFD700", "#ADFF2F",
            "#FF1493", "#00FFFF", "#FF8C00">>

dash_styles == <<"solid", "dash", "dot", "dashdot", "longdash", "longdashdot",
                 "solid", "dash", "dot">>

\* cleanMetricName: capitalizeFirstLetter(metric.replace('_', ' '))
CleanMetricName(metric) ==
    CASE metric = "throttle" -> "Throttle"
      [] metric = "brake" -> "Brake"
      [] metric = "speed" -> "Speed"
      [] metric = "n_gear" -> "N gear"

----------------------------------------------------------------------------
(* The catalog and telemetry services behind /api                          *)

\* /api/sessions: the values of the session list
ServerSessions == <<"9158", "9158-2">>

\* /api/drivers/<sessionKey>: the values of the driver list of a session
ServerDrivers(sessionKey) ==
    IF sessionKey \in {"9158", "9158-2"} THEN <<"2", "1", "3">> ELSE <<>>

\* driver_mapping of a telemetry response; driver 3 has no entry
ServerDriverMapping == [key \in {"1", "2"} |-> IF key = "1" THEN "VER" ELSE "HAM"]

Sample(d, t, th, br, sp, g) ==
    [driver_number |-> d, date_ms |-> t, throttle |-> th, brake |-> br,
     speed |-> sp, n_gear |-> g]

\* the telemetry store.  Session 9158: driver 1 has samples whose throttle is
\* absent throughout (null, or the field missing), driver 2 has samples out of
\* time order with one throttle gap, driver 3 has no sample.  Session 9158-2:
\* driver 2 has one sample without a brake value, driver 1 has no sample,
\* driver 3 has two samples of equal time.
ServerSeries(session, d) ==
    IF session = "9158"
    THEN CASE d = Num(1) ->
                << Sample(d, 1000, Null, Num(30), Num(120), Num(3)),
                   Sample(d, 2000, Undefined, Num(25), Num(110), Num(3)) >>
           [] d = Num(2) ->
                << Sample(d, 2000, Null, Num(0), Num(310), Num(8)),
                   Sample(d, 1000, Num(80), Num(0), Num(300), Num(7)) >>
           [] OTHER -> <<>>
    ELSE CASE d = Num(2) ->
                << Sample(d, 1000, Num(50), Null, Num(200), Num(5)) >>
           [] d = Num(3) ->
                << Sample(d, 1500, Num(100), Num(0), Num(280), Num(6)),
                   Sample(d, 1500, Num(90), Num(10), Num(270), Null) >>
           [] OTHER -> <<>>

RECURSIVE ServerData(_, _)
\* the data array of a telemetry response: the series of each requested
\* driver, in request order
ServerData(session, drivers) ==
    IF Len(drivers) = 0 THEN <<>>
    ELSE ServerSeries(session, ParseInt(Head(drivers)))
         \o ServerData(session, Tail(drivers))

\* the JSON bodies a telemetry response may carry: the full one, one without
\* data, one without driver_mapping
ServerBodies(session, drivers) ==
    { [hasData |-> TRUE, data |-> ServerData(session, drivers),
       hasMapping |-> TRUE, driver_mapping |-> ServerDriverMapping],
      [hasData |-> FALSE, data |-> <<>>,
       hasMapping |-> TRUE, driver_mapping |-> ServerDriverMapping],
      [hasData |-> TRUE, data |-> ServerData(session, drivers),
       hasMapping |-> FALSE, driver_mapping |-> ServerDriverMapping] }

\* how a request to the telemetry service may end
ServerResponses(session, drivers) ==
    { [kind |-> "ok", body |-> b] : b \in ServerBodies(session, drivers) }
    \cup
    { [kind |-> k,
       body |-> [hasData |-> TRUE, data |-> ServerData(session, drivers),
                 hasMapping |-> TRUE, driver_mapping |-> ServerDriverMapping]] :
        k \in {"http_error", "network_error"} }

----------------------------------------------------------------------------
(* fetchData                                                               *)

\* fetchData without the response.ok check
fetchDataAnyStatus(response) ==
    [isNull |-> response.kind = "network_error", body |-> response.body]

\* fetchData(url): the parsed body, or null after a failed fetch or a
\* non-success status
fetchData(response) ==
    IF response.kind = "ok"
    THEN [isNull |-> FALSE, body |-> response.body]
    ELSE [isNull |-> TRUE, body |-> response.body]

----------------------------------------------------------------------------
(* plotTelemetry                                                           *)

\* Array.from(driverSelect.selectedOptions).map(option => option.value)
SelectedValues(options, sel) ==
    LET RECURSIVE Walk(_)
        Walk(k) == IF k > Len(options) THEN <<>>
                   ELSE (IF k \in sel THEN <<options[k]>> ELSE <<>>) \o Walk(k + 1)
    IN  Walk(1)

\* const selectedDrivers of plotTelemetry
PlotSelectedDrivers(options, sel) == Map(SelectedValues(options, sel), ParseInt)

\* dataByDriver: the samples of the selected drivers, keyed by driver number
DataByDriver(data, selectedDrivers) ==
    LET kept == SelectSeq(data, LAMBDA d : Includes(selectedDrivers, d.driver_number))
        keys == {NumberToString(kept[k].driver_number) : k \in 1..Len(kept)}
    IN  [key \in keys |->
            SelectSeq(kept, LAMBDA d : NumberToString(d.driver_number) = key)]

RECURSIVE ForInKeys(_)
\* the order in which for...in visits integer keys: ascending
ForInKeys(keys) ==
    IF keys = {} THEN <<>>
    ELSE LET least == CHOOSE a \in keys :
                          \A b \in keys : ParseInt(a)[2] <= ParseInt(b)[2]
         IN  <<least>> \o ForInKeys(keys \ {least})

RECURSIVE SortByDate(_)
\* driverData.sort((a, b) => a.date_ms - b.date_ms): stable
SortByDate(s) ==
    IF Len(s) <= 1 THEN s
    ELSE LET rest == SortByDate(Tail(s))
             before == SelectSeq(rest, LAMBDA d : d.date_ms < Head(s).date_ms)
             after == SelectSeq(rest, LAMBDA d : d.date_ms >= Head(s).date_ms)
         IN  before \o <<Head(s)>> \o after

\* the check with some in place of every
AllAbsentSome(y) == \E k \in 1..Len(y) : y[k] = Null \/ y[k] = Undefined

\* y.every(val => val === null || val === undefined)
AllAbsent(y) == \A k \in 1..Len(y) : y[k] = Null \/ y[k] = Undefined

\* driverMapping[driverNum] || `Driver ${driverNum}`
DriverName(driverMapping, driverNum) ==
    IF driverNum \in DOMAIN driverMapping THEN driverMapping[driverNum]
    ELSE "Driver " \o driverNum

\* the object pushed to traces for one driver; i is the loop's counter
Trace(metric, driverNum, driverData, driverMapping, i) ==
    [driverNum |-> driverNum,
     name |-> DriverName(driverMapping, driverNum),
     x |-> Map(driverData, LAMBDA d : d.date_ms),
     y |-> Map(driverData, LAMBDA d : d[metric]),
     color |-> colors[(i % Len(colors)) + 1],
     dash |-> dash_styles[(i % Len(dash_styles)) + 1],
     shape |-> IF metric = "n_gear" THEN "hv" ELSE "linear"]

RECURSIVE TraceLoop(_, _, _, _, _)
\* the for...in loop over dataByDriver: a driver whose values are all absent
\* is skipped by continue, before i++
TraceLoop(metric, keys, byDriver, driverMapping, i) ==
    IF Len(keys) = 0 THEN <<>>
    ELSE LET driverNum == Head(keys)
             driverData == SortByDate(byDriver[driverNum])
             y == Map(driverData, LAMBDA d : d[metric])
         IN  IF AllAbsent(y)
             THEN TraceLoop(metric, Tail(keys), byDriver, driverMapping, i)
             ELSE <<Trace(metric, driverNum, driverData, driverMapping, i)>>
                  \o TraceLoop(metric, Tail(keys), byDriver, driverMapping, i + 1)

\* const traces of one metric
Traces(metric, data, driverMapping, selectedDrivers) ==
    LET byDriver == DataByDriver(data, selectedDrivers)
    IN  TraceLoop(metric, ForInKeys(DOMAIN byDriver), byDriver, driverMapping, 0)

\* layout.uirevision
Uirevision(session, selectedDrivers, metric) ==
    session \o "-" \o Join(Map(selectedDrivers, NumberToString), "-")
            \o "-" \o metric

\* a layout that never gets the annotation
AnnotationsNever(metric, traces) == <<>>

\* layout.annotations: set only when there is no trace
Annotations(metric, traces) ==
    IF Len(traces) = 0
    THEN << "No data available for " \o CleanMetricName(metric)
            \o " for the selected drivers." >>
    ELSE <<>>

\* the layout object of one metric (the fields that vary)
Layout(metric, traces, session, selectedDrivers) ==
    [yaxisType |-> IF metric = "n_gear" THEN "category" ELSE "linear",
     yaxisRange |-> IF metric \in {"throttle", "brake"} THEN <<0, 100>> ELSE <<>>,
     uirevision |-> Uirevision(session, selectedDrivers, metric),
     annotations |-> Annotations(metric, traces)]

\* a graph div before any plot, and after Plotly.purge
NoLayout == [yaxisType |-> "", yaxisRange |-> <<>>, uirevision |-> "",
             annotations |-> <<>>]

Blank == [state |-> "blank", traces |-> <<>>, layout |-> NoLayout]

Purged == [state |-> "purged", traces |-> <<>>, layout |-> NoLayout]

\* Plotly.newPlot(graphDivs[metric], traces, layout, ...)
NewPlot(traces, layout) == [state |-> "drawn", traces |-> traces, layout |-> layout]

\* the chart plotTelemetry draws for one metric
ChartOf(metric, data, driverMapping, session, selectedDrivers) ==
    LET traces == Traces(metric, data, driverMapping, selectedDrivers)
    IN  NewPlot(traces, Layout(metric, traces, session, selectedDrivers))

\* plotTelemetry, with Plotly.newPlot succeeding for the first `drawn` metrics
\* only: every graph div is purged first, then the metrics are drawn in
\* order; the session and the selection are read from the page as it is now
PlotThrough(data, driverMapping, drawn) ==
    LET selectedDrivers == PlotSelectedDrivers(driverOptions, selected)
    IN  [m \in Metrics |->
            IF \E k \in 1..drawn : metrics[k] = m
            THEN ChartOf(m, data, driverMapping, sessionValue, selectedDrivers)
            ELSE Purged]

\* plotTelemetry(data, driverMapping) when every Plotly.newPlot succeeds
plotTelemetry(data, driverMapping) == PlotThrough(data, driverMapping, Len(metrics))

----------------------------------------------------------------------------
(* The update button's click handler                                       *)

\* driversToFetch without the slice
DriversToFetchAll(selectedDrivers) == selectedDrivers

\* const driversToFetch
DriversToFetch(selectedDrivers) == Slice(selectedDrivers, 2)

\* telemetryData && telemetryData.data && telemetryData.driver_mapping
ResponseUsable(telemetryData) ==
    /\ ~telemetryData.isNull
    /\ telemetryData.body.hasData
    /\ telemetryData.body.hasMapping

\* a continuation that drops the response of any click but the latest
HandlerPlotsLatestOnly(request, telemetryData) ==
    ResponseUsable(telemetryData) /\ request.id = clicks

\* whether the continuation of the click that issued `request` plots
HandlerPlots(request, telemetryData) == ResponseUsable(telemetryData)

\* a fetch that ended in a network error, a non-success status, or a body
\* without data or without driver_mapping
ResponseFailed(response) ==
    \/ response.kind # "ok"
    \/ ~response.body.hasData
    \/ ~response.body.hasMapping

NoRequest == [id |-> 0, session |-> "", drivers |-> <<>>, selectedAtClick |-> <<>>]

\* what one run of plotTelemetry read: the response data of the request whose
\* continuation called it, and the session and selection of the page then;
\* `drawn` is the number of metrics it drew
Pass(request, data, drawn) ==
    [request |-> request,
     session |-> sessionValue,
     selectedDrivers |-> PlotSelectedDrivers(driverOptions, selected),
     data |-> data,
     drawn |-> drawn]

NoPass == [request |-> NoRequest, session |-> "", selectedDrivers |-> <<>>,
           data |-> <<>>, drawn |-> 0]

\* the part of a run kept for every run: whose response it drew, and the
\* session and selection that went into its identity tokens
View(request) ==
    [id |-> request.id,
     session |-> sessionValue,
     selectedDrivers |-> PlotSelectedDrivers(driverOptions, selected)]

----------------------------------------------------------------------------
(* State machine                                                           *)

Init ==
    /\ sessionOptions = <<>>
    /\ sessionValue = ""
    /\ driverOptions = <<>>
    /\ selected = {}
    /\ sessionsFetch = TRUE
    /\ driversFetches = {}
    /\ telemetryFetches = {}
    /\ clicks = 0
    /\ charts = [m \in Metrics |-> Blank]
    /\ edits = 0
    /\ passes = <<>>
    /\ lastPass = NoPass
    /\ resolved = <<>>

\* populateSessions, after its fetch: the chooser is filled, its first option
\* becomes its value, and populateDrivers is started for it
PopulateSessionsResolve(ok) ==
    /\ sessionsFetch
    /\ sessionsFetch' = FALSE
    /\ IF ok
       THEN /\ sessionOptions' = ServerSessions
            /\ sessionValue' = IF Len(ServerSessions) > 0 THEN ServerSessions[1] ELSE ""
            /\ driversFetches' = IF Len(ServerSessions) > 0
                                  THEN driversFetches \cup {ServerSessions[1]}
                                  ELSE driversFetches
       ELSE UNCHANGED <<sessionOptions, sessionValue, driversFetches>>
    /\ UNCHANGED <<driverOptions, selected, telemetryFetches, clicks, charts,
                   edits, passes, lastPass, resolved>>

\* the user picks another session: the change handler starts populateDrivers
SessionChange(k) ==
    /\ k \in 1..Len(sessionOptions)
    /\ edits < MaxEdits
    /\ edits' = edits + 1
    /\ sessionOptions[k] # sessionValue
    /\ sessionValue' = sessionOptions[k]
    /\ driversFetches' = driversFetches \cup {sessionOptions[k]}
    /\ UNCHANGED <<sessionOptions, driverOptions, selected, sessionsFetch,
                   telemetryFetches, clicks, charts, passes, lastPass, resolved>>

\* populateDrivers, after its fetch: the driver chooser is refilled and its
\* first two options are selected
PopulateDriversResolve(sessionKey, ok) ==
    /\ sessionKey \in driversFetches
    /\ driversFetches' = driversFetches \ {sessionKey}
    /\ IF ok
       THEN /\ driverOptions' = ServerDrivers(sessionKey)
            /\ selected' = 1..Min(2, Len(ServerDrivers(sessionKey)))
       ELSE UNCHANGED <<driverOptions, selected>>
    /\ UNCHANGED <<sessionOptions, sessionValue, sessionsFetch, telemetryFetches,
                   clicks, charts, edits, passes, lastPass, resolved>>

\* the user edits or deedits one option of the driver chooser
SelectDriver(k) ==
    /\ k \in 1..Len(driverOptions)
    /\ edits < MaxEdits
    /\ edits' = edits + 1
    /\ selected' = IF k \in selected THEN selected \ {k} ELSE selected \cup {k}
    /\ UNCHANGED <<sessionOptions, sessionValue, driverOptions, sessionsFetch,
                   driversFetches, telemetryFetches, clicks, charts, passes,
                   lastPass, resolved>>

\* the click handler up to its await: an alert and nothing else, or the
\* telemetry request for the first two selected drivers
UpdateClick ==
    LET selectedSession == sessionValue
        selectedDrivers == SelectedValues(driverOptions, selected)
    IN  IF selectedSession = "" \/ Len(selectedDrivers) = 0
        THEN UNCHANGED vars
        ELSE /\ clicks < MaxClicks
             /\ clicks' = clicks + 1
             /\ telemetryFetches' = telemetryFetches \cup
                    {[id |-> clicks + 1,
                      session |-> selectedSession,
                      drivers |-> DriversToFetch(selectedDrivers),
                      selectedAtClick |-> selectedDrivers]}
             /\ UNCHANGED <<sessionOptions, sessionValue, driverOptions, selected,
                            sessionsFetch, driversFetches, charts, edits, passes,
                            lastPass, resolved>>

\* the click handler after its await, with a drawing primitive that draws:
\* a usable response is plotted, any other is logged
TelemetryResolve(request, response) ==
    LET telemetryData == fetchData(response)
    IN  /\ request \in telemetryFetches
        /\ telemetryFetches' = telemetryFetches \ {request}
        /\ resolved' = Append(resolved, [id |-> request.id,
                                         failed |-> ResponseFailed(response)])
        /\ IF HandlerPlots(request, telemetryData)
           THEN /\ charts' = plotTelemetry(telemetryData.body.data,
                                           telemetryData.body.driver_mapping)
                /\ passes' = Append(passes, View(request))
                /\ lastPass' = Pass(request, telemetryData.body.data, Len(metrics))
           ELSE UNCHANGED <<charts, passes, lastPass>>
        /\ UNCHANGED <<sessionOptions, sessionValue, driverOptions, selected,
                       sessionsFetch, driversFetches, clicks, edits>>

\* the click handler after its await, when Plotly.newPlot throws for the
\* metric after the first `drawn` ones: the exception leaves forEach and
\* plotTelemetry, and the remaining graph divs stay purged
TelemetryResolveDrawThrows(request, response, drawn) ==
    LET telemetryData == fetchData(response)
    IN  /\ request \in telemetryFetches
        /\ HandlerPlots(request, telemetryData)
        /\ drawn \in 0..(Len(metrics) - 1)
        /\ telemetryFetches' = telemetryFetches \ {request}
        /\ resolved' = Append(resolved, [id |-> request.id,
                                         failed |-> ResponseFailed(response)])
        /\ charts' = PlotThrough(telemetryData.body.data,
                                 telemetryData.body.driver_mapping, drawn)
        /\ passes' = Append(passes, View(request))
        /\ lastPass' = Pass(request, telemetryData.body.data, drawn)
        /\ UNCHANGED <<sessionOptions, sessionValue, driverOptions, selected,
                       sessionsFetch, driversFetches, clicks, edits>>

Next ==
    \/ \E ok \in BOOLEAN : PopulateSessionsResolve(ok)
    \/ \E k \in 1..Len(sessionOptions) : SessionChange(k)
    \/ \E sessionKey \in driversFetches, ok \in BOOLEAN :
           PopulateDriversResolve(sessionKey, ok)
    \/ \E k \in 1..Len(driverOptions) : SelectDriver(k)
    \/ UpdateClick
    \/ \E request \in telemetryFetches :
           \E response \in ServerResponses(request.session, request.drivers) :
               TelemetryResolve(request, response)

Spec == Init /\ [][Next]_vars

\* the same page over a drawing primitive that may throw
NextFault ==
    \/ Next
    \/ \E request \in telemetryFetches :
           \E response \in ServerResponses(request.session, request.drivers) :
               \E drawn \in 0..(Len(metrics) - 1) :
                   TelemetryResolveDrawThrows(request, response, drawn)

SpecFault == Init /\ [][NextFault]_vars

----------------------------------------------------------------------------
(* Vocabulary of the properties                                            *)

\* the latest run of plotTelemetry
LastPass == lastPass

\* the driver numbers (as keys) of the traces of a chart
TraceDrivers(chart) == {chart.traces[k].driverNum : k \in 1..Len(chart.traces)}

\* driver d has a sample in data whose value for metric m is neither null nor
\* undefined
HasValue(data, d, m) ==
    \E k \in 1..Len(data) :
        /\ data[k].driver_number = d
        /\ data[k][m] # Null
        /\ data[k][m] # Undefined

\* the keys of the drivers among selectedDrivers with a value for m in data
DriversWithValue(data, selectedDrivers, m) ==
    {NumberToString(selectedDrivers[k]) :
        k \in {j \in 1..Len(selectedDrivers) : HasValue(data, selectedDrivers[j], m)}}

\* 0-based position of the driver with key d in selectedDrivers
Rank(selectedDrivers, d) ==
    (CHOOSE k \in 1..Len(selectedDrivers) : NumberToString(selectedDrivers[k]) = d) - 1

AllDrawn == \A m \in Metrics : charts[m].state = "drawn"

----------------------------------------------------------------------------
(* C1 *)

\* C1: in every chart a render pass drew, the drivers with a trace are exactly
\* the drivers the pass read as selected that have at least one sample with a
\* value (not null, not undefined) for that channel, one trace each; so a
\* driver without any value for one channel is missing from that chart only.
C1_TracesAreDriversWithValue ==
    Len(passes) > 0 =>
        \A m \in Metrics :
            /\ charts[m].state = "drawn"
            /\ TraceDrivers(charts[m]) =
                   DriversWithValue(LastPass.data, LastPass.selectedDrivers, m)
            /\ Cardinality(TraceDrivers(charts[m])) = Len(charts[m].traces)

\* driver 1 of session 9158 has no throttle value: no throttle trace, but a
\* trace in each other chart, next to driver 2 who has one in all four
C1_Witness ==
    /\ Len(passes) > 0
    /\ LastPass.selectedDrivers = <<Num(2), Num(1)>>
    /\ TraceDrivers(charts["throttle"]) = {"2"}
    /\ \A m \in Metrics \ {"throttle"} : TraceDrivers(charts[m]) = {"1", "2"}

----------------------------------------------------------------------------
(* C2 *)

\* C2: within one render pass a driver has the same color and the same dash
\* pattern in every chart that holds a trace of that driver.
C2_SameStyleInAllCharts ==
    \A m1 \in Metrics, m2 \in Metrics :
        \A k1 \in 1..Len(charts[m1].traces), k2 \in 1..Len(charts[m2].traces) :
            charts[m1].traces[k1].driverNum = charts[m2].traces[k2].driverNum =>
                /\ charts[m1].traces[k1].color = charts[m2].traces[k2].color
                /\ charts[m1].traces[k1].dash = charts[m2].traces[k2].dash

----------------------------------------------------------------------------
(* C3 *)

\* C3: a click with more than two drivers selected requests the first two of
\* them, in selection order, and every chart of the pass that draws the
\* response holds traces of those two drivers only.
C3_TruncatedToFirstTwo ==
    /\ \A request \in telemetryFetches :
           Len(request.selectedAtClick) > 2 =>
               request.drivers = SubSeq(request.selectedAtClick, 1, 2)
    /\ (Len(passes) > 0 /\ Len(LastPass.request.selectedAtClick) > 2) =>
           /\ LastPass.request.drivers = SubSeq(LastPass.request.selectedAtClick, 1, 2)
           /\ \A m \in Metrics :
                  TraceDrivers(charts[m]) \subseteq
                      { LastPass.request.selectedAtClick[1],
                        LastPass.request.selectedAtClick[2] }

\* drivers 2, 1 and 3 were selected at the click, and the speed chart shows
\* drivers 2 and 1
C3_Witness ==
    /\ Len(passes) > 0
    /\ LastPass.request.selectedAtClick = <<"2", "1", "3">>
    /\ LastPass.selectedDrivers = <<Num(2), Num(1), Num(3)>>
    /\ TraceDrivers(charts["speed"]) = {"1", "2"}

----------------------------------------------------------------------------
(* C4 *)

\* C4: after a render pass all four charts are drawn; a chart without traces
\* carries the "No data available" annotation of its channel, a chart with a
\* trace carries none; when the data holds no sample of a selected driver,
\* all four charts have no trace and the annotation.
C4_EmptyChartAnnotated ==
    Len(passes) > 0 =>
        /\ \A m \in Metrics :
               /\ charts[m].state = "drawn"
               /\ Len(charts[m].traces) = 0 =>
                      charts[m].layout.annotations =
                          << "No data available for " \o CleanMetricName(m)
                             \o " for the selected drivers." >>
               /\ Len(charts[m].traces) > 0 => charts[m].layout.annotations = <<>>
        /\ (\A k \in 1..Len(LastPass.data) :
                ~Includes(LastPass.selectedDrivers, LastPass.data[k].driver_number))
             => \A m \in Metrics : /\ Len(charts[m].traces) = 0
                                   /\ Len(charts[m].layout.annotations) = 1

\* driver 1 alone is selected and requested in session 9158-2, where it has
\* no sample: four drawn charts, no trace, four annotations
C4_Witness ==
    /\ Len(passes) > 0
    /\ LastPass.request.drivers = <<"1">>
    /\ LastPass.selectedDrivers = <<Num(1)>>
    /\ LastPass.data = <<>>
    /\ \A m \in Metrics : /\ charts[m].state = "drawn"
                          /\ Len(charts[m].traces) = 0
                          /\ Len(charts[m].layout.annotations) = 1

----------------------------------------------------------------------------
(* C5 *)

\* C5: the step that ends a telemetry fetch in failure (network error,
\* non-success status, body without data or without driver_mapping) leaves
\* all four charts as they were, runs no render pass and issues no request.
C5_FailedFetchLeavesCharts ==
    [][ (Len(resolved') = Len(resolved) + 1 /\ resolved'[Len(resolved')].failed)
        => /\ charts' = charts
           /\ passes' = passes
           /\ lastPass' = lastPass
           /\ telemetryFetches' \subseteq telemetryFetches
           /\ clicks' = clicks ]_vars

\* the second fetch failed after the first was drawn: the charts still show
\* the first response
C5_Witness ==
    /\ Len(resolved) = 2
    /\ resolved[1] = [id |-> 1, failed |-> FALSE]
    /\ resolved[2] = [id |-> 2, failed |-> TRUE]
    /\ Len(passes) = 1
    /\ LastPass.request.id = 1
    /\ AllDrawn

----------------------------------------------------------------------------
(* C6 *)

\* C6: when the drawing of one channel fails, every other channel of that
\* render pass is still redrawn, with the chart built for it: no channel
\* stays purged because another channel failed.
C6_OtherChannelsRedrawn ==
    Len(passes) > 0 =>
        \A k \in 1..Len(metrics) :
            k # LastPass.drawn + 1 =>
                charts[metrics[k]] =
                    ChartOf(metrics[k], LastPass.data, ServerDriverMapping,
                            LastPass.session, LastPass.selectedDrivers)

----------------------------------------------------------------------------
(* C7 *)

\* C7: the color and the dash pattern of every trace are the palette entries
\* at (rank mod palette size), rank being the 0-based position of the trace's
\* driver among the selected drivers, in selection order.
C7_StyleByRankInSelection ==
    Len(passes) > 0 =>
        \A m \in Metrics : \A k \in 1..Len(charts[m].traces) :
            LET rank == Rank(LastPass.selectedDrivers, charts[m].traces[k].driverNum)
            IN  /\ charts[m].traces[k].color = colors[(rank % Len(colors)) + 1]
                /\ charts[m].traces[k].dash = dash_styles[(rank % Len(dash_styles)) + 1]

----------------------------------------------------------------------------
(* C8 *)

\* the identity token of metric m in the k-th render pass
TokenOf(k, m) ==
    IF k = Len(passes) THEN charts[m].layout.uirevision
    ELSE Uirevision(passes[k].session, passes[k].selectedDrivers, m)

\* C8: two charts of render passes carry the same identity token exactly when
\* the passes agree in session, in the ordered selected drivers and in the
\* channel.
C8_TokenIdentifiesView ==
    AllDrawn =>
        \A k1 \in 1..Len(passes), k2 \in 1..Len(passes) :
            \A m1 \in Metrics, m2 \in Metrics :
                (TokenOf(k1, m1) = TokenOf(k2, m2))
                <=> /\ passes[k1].session = passes[k2].session
                    /\ passes[k1].selectedDrivers = passes[k2].selectedDrivers
                    /\ m1 = m2

----------------------------------------------------------------------------
(* C9 *)

\* the fetches that ended with a usable response, in the order they ended
Succeeded == SelectSeq(resolved, LAMBDA r : ~r.failed)

\* every request issued is outstanding or has ended once (none is dropped),
\* and each one that ended with a usable response ran one render pass that
\* drew all four charts, in the order the responses arrived
EachResponseHandled ==
    /\ \A id \in 1..clicks :
           (\E request \in telemetryFetches : request.id = id)
           # (\E k \in 1..Len(resolved) : resolved[k].id = id)
    /\ \A k1 \in 1..Len(resolved), k2 \in 1..Len(resolved) :
           resolved[k1].id = resolved[k2].id => k1 = k2
    /\ Len(passes) = Len(Succeeded)
    /\ \A k \in 1..Len(passes) : passes[k].id = Succeeded[k].id
    /\ Len(passes) > 0 =>
           /\ LastPass.request.id = passes[Len(passes)].id
           /\ LastPass.drawn = Len(metrics)
           /\ LastPass.data =
                  ServerData(LastPass.request.session, LastPass.request.drivers)

\* the charts on the page are the four charts of the latest render pass
ChartsShowLastPass ==
    Len(passes) > 0 =>
        \A m \in Metrics :
            charts[m] = ChartOf(m, LastPass.data, ServerDriverMapping,
                                LastPass.session, LastPass.selectedDrivers)

\* C9 as stated: requests are neither dropped nor serialized, each usable
\* response runs a whole render pass, and once no fetch is outstanding the
\* charts are those of the fetch that ended last.
C9_LastResolvedWins ==
    /\ EachResponseHandled
    /\ ChartsShowLastPass
    /\ (telemetryFetches = {} /\ Len(passes) > 0) =>
           LastPass.request.id = resolved[Len(resolved)].id

\* C9, amended: ... the charts are those of the fetch that ended last with a
\* usable response; a fetch that ends in failure after it changes nothing.
C9_LastSucceededWins ==
    /\ EachResponseHandled
    /\ ChartsShowLastPass
    /\ Len(Succeeded) > 0 =>
           LastPass.request.id = Succeeded[Len(Succeeded)].id

\* two requests for different sessions were outstanding together and their
\* responses arrived in reverse order: the charts show the first request's
\* data
C9_Witness ==
    /\ resolved = << [id |-> 2, failed |-> FALSE], [id |-> 1, failed |-> FALSE] >>
    /\ Len(passes) = 2
    /\ LastPass.request.id = 1
    /\ passes[1].id = 2
    /\ passes[1].session # LastPass.request.session
    /\ LastPass.data = ServerData("9158", <<"2", "1">>)
    /\ AllDrawn

----------------------------------------------------------------------------
(* C10 *)

\* C10: the charts of a render pass are built from the request of the click
\* whose response it draws: the drivers that filter the samples and the
\* session and drivers of the identity token are the submitted ones.
C10_ChartsUseSubmittedRequest ==
    Len(passes) > 0 =>
        LET submitted == Map(LastPass.request.drivers, ParseInt)
        IN  /\ LastPass.session = LastPass.request.session
            /\ LastPass.selectedDrivers = submitted
            /\ \A m \in Metrics :
                   charts[m].layout.uirevision =
                       Uirevision(LastPass.request.session, submitted, m)

====
